---- MODULE Spec2Model ----
(***************************************************************************)
(* A model of live_cta_agent.py: the TelemetryBuffer shared by the         *)
(* producer threads and the Tk main thread, TriggerEngine.evaluate, and    *)
(* the monitor loop of CTAGUI.                                             *)
(*                                                                         *)
(* Time is the value time.time() returns: a clock `now` that never goes    *)
(* back.  An event text is a sequence of tokens whose first token is the   *)
(* tag, <<"[key]", "a">> for the Python string "[key] a"; a formatted      *)
(* snapshot line is the ISO timestamp token, the two-space token and then  *)
(* the tokens of the text.                                                 *)
(***************************************************************************)
EXTENDS Integers, Sequences, FiniteSets, TLC

VARIABLES
    now,            \* the wall clock, time.time()
    maxlen,         \* TelemetryBuffer.maxlen
    buf,            \* TelemetryBuffer.buf: the deque of (ts, txt)
    lock,           \* TelemetryBuffer.lock: "free" or the thread holding it
    appended,       \* history: every event ever appended, in append order
    apc,            \* per producer: where its add call is
    pend,           \* per producer: the text its add call was given
    stamp,          \* per producer: the time.time() its add call read
    spc,            \* main thread: where its snapshot call is
    sret,           \* main thread: who called snapshot
    swin,           \* snapshot's argument last_n_secs
    scall,          \* history: the clock snapshot read on entry
    cutoff,         \* snapshot's local cutoff
    sidx,           \* snapshot: how many deque items the comprehension has visited
    sres,           \* snapshot: the list built so far, then the returned list
    sview,          \* history: the deque as it was when snapshot took the lock
    last_prompt,    \* TriggerEngine.last_prompt
    file_events,    \* TriggerEngine.file_events
    evalNow,        \* evaluate's local now
    hint,           \* what evaluate returned
    tpc,            \* the caller of evaluate in the trigger specification
    stop_event,     \* CTAGUI.stop_event: TRUE when set
    mpc,            \* the Tk main thread: where it is
    inInit,         \* monitor_loop is running as called from __init__
    afterPending,   \* a monitor_loop call is scheduled with self.after
    lpc,            \* per producer: its thread ("off", "run", "done")
    running_threads,\* CTAGUI.running_threads
    start_btn,      \* TRUE: TASK START is enabled and TASK STOP disabled
    start_time,     \* CTAGUI.start_time
    sessions,       \* history: how many times start_task ran
    ctx,            \* monitor_loop's ctx
    question,       \* monitor_loop's question
    answer,         \* ask_cta_question's answer
    wav,            \* TRUE: the temporary audio file exists
    qa_log,         \* the lines of cta_log.jsonl
    session_log,    \* the session log files written: name -> lines
    cycle,          \* history: how the last monitor_loop call went
    lpAtTick,       \* history: last_prompt when that call started
    qaAtTick,       \* history: the length of qa_log when that call started
    prevFire,       \* history: evaluate's now at the idle-pause return before the last
    lastFire,       \* history: evaluate's now at the last idle-pause return
    runFrom         \* history: how many events had been appended when start_task ran

clockVars == <<now>>
bufVars   == <<maxlen, buf, lock, appended>>
adderVars == <<apc, pend, stamp>>
snapVars  == <<spc, sret, swin, scall, cutoff, sidx, sres, sview>>
trigVars  == <<last_prompt, file_events>>
evalVars  == <<evalNow, hint, tpc>>
appVars   == <<stop_event, mpc, inInit, afterPending, lpc, running_threads,
               start_btn, start_time, sessions, ctx, question, answer, wav,
               qa_log, session_log>>
histVars  == <<cycle, lpAtTick, qaAtTick, prevFire, lastFire, runFrom>>
vars      == <<clockVars, bufVars, adderVars, snapVars, trigVars, evalVars,
               appVars, histVars>>

(***************************************************************************)
(* Bounds of the model.                                                    *)
(***************************************************************************)
BufCap      == 2    \* the maxlen the buffer under test is built with
MaxAdds     == 3    \* add calls in one run of the buffer specification
BufMaxTime  == 9    \* the clock stops here in the buffer specification
BufSteps    == {3}  \* clock advances drawn in the buffer specification

(***************************************************************************)
(* Program constants.                                                      *)
(***************************************************************************)
IdleLookback == 6            \* telemetry.snapshot(6)
CtxWindow    == 60           \* telemetry.snapshot(60)
FullWindow   == 1000000000   \* telemetry.snapshot(10**9)

Producers == {"win", "input", "fs"}

(* The texts each producer builds (the f-strings of the three collectors). *)
WinTitle   == <<"[win]", "title">>
WinError   == <<"[win]", "ERROR", "msg">>
KeyPress   == <<"[key]", "k">>
MouseClick == <<"[mouse]", "b", "at", "x,y">>
FileCreate == <<"[file+]", "path">>
FileModify == <<"[file~]", "path">>

ProducerTexts(p) ==
    CASE p = "win"   -> {WinTitle, WinError}
      [] p = "input" -> {KeyPress, MouseClick}
      [] p = "fs"    -> {FileCreate, FileModify}

(***************************************************************************)
(* TelemetryBuffer                                                         *)
(***************************************************************************)
Event(ts, txt) == [ts |-> ts, txt |-> txt]

(* datetime.fromtimestamp(ts).isoformat(): a token of digits, never a tag. *)
IsoFormat(ts) == ToString(ts)

(* f"{iso}  {txt}" *)
FormatLine(e) == <<IsoFormat(e.ts), "  ">> \o e.txt

Min(a, b) == IF a < b THEN a ELSE b

(* s[-n:] *)
LastN(s, n) == SubSeq(s, Len(s) - Min(n, Len(s)) + 1, Len(s))

(* The list a comprehension over s builds. *)
FormatAll(s) == [i \in 1..Len(s) |-> FormatLine(s[i])]

(* str.startswith *)
StartsWith(line, prefix) ==
    /\ Len(line) >= Len(prefix)
    /\ SubSeq(line, 1, Len(prefix)) = prefix

(* deque(maxlen=n).append: a full deque drops its oldest item. *)
DequeAppendDropNewest(d, n, e) ==
    IF Len(d) < n THEN Append(d, e) ELSE Append(SubSeq(d, 1, Len(d) - 1), e)

DequeAppend(d, n, e) ==
    IF Len(d) < n THEN Append(d, e) ELSE Append(Tail(d), e)

(* threading.Lock: acquire blocks until the lock is free. *)
CanAcquireNoMutex == TRUE

CanAcquire == lock = "free"

(* The filter of the comprehension: ts >= cutoff. *)
InWindowStrict(ts, c) == ts > c

InWindow(ts, c) == ts >= c

(* Leaving `with self.lock:` releases the lock. *)
LockLeftHeld(holder) == holder

LockReleased(holder) == "free"

InFlight == Cardinality({p \in Producers : apc[p] # "idle"})

(* A producer calls telemetry.add(ev). *)
AddCall(p, txt, maxAdds) ==
    /\ apc[p] = "idle"
    /\ Len(appended) + InFlight < maxAdds
    /\ apc' = [apc EXCEPT ![p] = "want"]
    /\ pend' = [pend EXCEPT ![p] = txt]
    /\ UNCHANGED <<stamp, clockVars, bufVars, snapVars, trigVars, evalVars, appVars,
                   histVars>>

(* add: `with self.lock:` entered, time.time() read. *)
AddAcquire(p) ==
    /\ apc[p] = "want"
    /\ CanAcquire
    /\ lock' = p
    /\ stamp' = [stamp EXCEPT ![p] = now]
    /\ apc' = [apc EXCEPT ![p] = "locked"]
    /\ UNCHANGED <<pend, clockVars, maxlen, buf, appended, snapVars, trigVars,
                   evalVars, appVars,
                   histVars>>

(* add: self.buf.append((ts, ev)), then the lock is released. *)
AddAppend(p) ==
    /\ apc[p] = "locked"
    /\ buf' = DequeAppend(buf, maxlen, Event(stamp[p], pend[p]))
    /\ appended' = Append(appended, Event(stamp[p], pend[p]))
    /\ lock' = LockReleased(p)
    /\ apc' = [apc EXCEPT ![p] = "idle"]
    /\ pend' = [pend EXCEPT ![p] = <<>>]
    /\ stamp' = [stamp EXCEPT ![p] = 0]
    /\ UNCHANGED <<clockVars, maxlen, snapVars, trigVars, evalVars, appVars,
                   histVars>>

(* snapshot(w) entered by `who`: cutoff = time.time() - last_n_secs. *)
SnapCall(who, w) ==
    /\ spc = "none"
    /\ spc' = "want"
    /\ sret' = who
    /\ swin' = w
    /\ scall' = now
    /\ cutoff' = now - w
    /\ UNCHANGED <<sidx, sres, sview, clockVars, bufVars, adderVars, trigVars,
                   evalVars, appVars,
                   histVars>>

(* snapshot: `with self.lock:` entered, the comprehension starts. *)
SnapAcquire ==
    /\ spc = "want"
    /\ CanAcquire
    /\ lock' = "main"
    /\ spc' = "iter"
    /\ sidx' = 0
    /\ sres' = <<>>
    /\ sview' = buf
    /\ UNCHANGED <<sret, swin, scall, cutoff, clockVars, maxlen, buf, appended,
                   adderVars, trigVars, evalVars, appVars,
                   histVars>>

(* snapshot: the comprehension visits the next item of the deque. *)
SnapIter ==
    /\ spc = "iter"
    /\ sidx < Len(buf)
    /\ sidx' = sidx + 1
    /\ sres' = IF InWindow(buf[sidx + 1].ts, cutoff)
                 THEN Append(sres, FormatLine(buf[sidx + 1]))
                 ELSE sres
    /\ UNCHANGED <<spc, sret, swin, scall, cutoff, sview, clockVars, bufVars,
                   adderVars, trigVars, evalVars, appVars,
                   histVars>>

(* snapshot: the comprehension is exhausted, the lock released, the list
   returned. *)
SnapReturn ==
    /\ spc = "iter"
    /\ sidx >= Len(buf)
    /\ lock' = LockReleased("main")
    /\ spc' = "done"
    /\ UNCHANGED <<sret, swin, scall, cutoff, sidx, sres, sview, clockVars,
                   maxlen, buf, appended, adderVars, trigVars, evalVars, appVars,
                   histVars>>

(* The frame of a finished snapshot call is gone. *)
SnapReset ==
    /\ spc' = "none"
    /\ sret' = "none"
    /\ swin' = 0
    /\ scall' = 0
    /\ cutoff' = 0
    /\ sidx' = 0
    /\ sres' = <<>>
    /\ sview' = <<>>

(* The clock advances by d. *)
Tick(d, maxTime) ==
    /\ now + d <= maxTime
    /\ now' = now + d
    /\ UNCHANGED <<bufVars, adderVars, snapVars, trigVars, evalVars, appVars,
                   histVars>>

(***************************************************************************)
(* TriggerEngine                                                           *)
(***************************************************************************)
IdleCooldown == 15   \* now - self.last_prompt > 15
FileWindow   == 30   \* now - ts < 30
BurstCount   == 3    \* len(self.file_events) >= 3
FileCooldown == 30   \* now - self.last_prompt > 30

IdleReason == "I noticed a short pause"
FileReason == "You opened several new files"
NoHint     == "None"

(* TriggerEngine.__init__ *)
InitTrigger ==
    /\ last_prompt = 0
    /\ file_events = <<>>
    /\ evalNow = 0
    /\ hint = NoHint
    /\ tpc = "ready"

(* any(ev.startswith("[key]") or ev.startswith("[mouse]") for ev in recent) *)
AnyInput(recent) ==
    \E i \in 1..Len(recent) :
        StartsWith(recent[i], <<"[key]">>) \/ StartsWith(recent[i], <<"[mouse]">>)

(* any(ev.startswith("[file+]") for ev in recent) *)
AnyFile(recent) ==
    \E i \in 1..Len(recent) : StartsWith(recent[i], <<"[file+]">>)

(* Rule 1: not any_input and now - self.last_prompt > 15 *)
IdleFiresLongCooldown(recent, t, lp) ==
    ~AnyInput(recent) /\ t - lp > FileCooldown

IdleFires(recent, t, lp) ==
    ~AnyInput(recent) /\ t - lp > IdleCooldown

(* Rule 2's two assignments to self.file_events. *)
NextFileEvents(fe, recent, t) ==
    SelectSeq(fe, LAMBDA ts : t - ts < FileWindow)
        \o (IF AnyFile(recent) THEN <<t>> ELSE <<>>)

(* What evaluate returns, given the snapshot it took: rule 1 is tested
   first and returns; rule 2 is looked at only when rule 1 did not return. *)
EvaluateHintRule2Only(recent, t, lp, fe) ==
    IF Len(NextFileEvents(fe, recent, t)) >= BurstCount /\ t - lp > FileCooldown
      THEN FileReason
      ELSE NoHint

EvaluateHint(recent, t, lp, fe) ==
    IF IdleFires(recent, t, lp)
      THEN IdleReason
      ELSE IF Len(NextFileEvents(fe, recent, t)) >= BurstCount
                 /\ t - lp > FileCooldown
             THEN FileReason
             ELSE NoHint

(* self.file_events when evaluate returns. *)
EvaluateFileEvents(recent, t, lp, fe) ==
    IF IdleFires(recent, t, lp) THEN fe ELSE NextFileEvents(fe, recent, t)

(***************************************************************************)
(* The buffer specification: one TelemetryBuffer, three producer threads   *)
(* calling add and the main thread calling snapshot with the windows the   *)
(* program uses.                                                           *)
(***************************************************************************)
Windows == {IdleLookback, CtxWindow, FullWindow}

(* The texts drawn in the buffer specification: one per producer. *)
BufTexts(p) ==
    CASE p = "win"   -> {WinTitle}
      [] p = "input" -> {KeyPress}
      [] p = "fs"    -> {FileCreate}

InitBuffer ==
    /\ buf = <<>>
    /\ lock = "free"
    /\ appended = <<>>
    /\ apc = [p \in Producers |-> "idle"]
    /\ pend = [p \in Producers |-> <<>>]
    /\ stamp = [p \in Producers |-> 0]
    /\ spc = "none"
    /\ sret = "none"
    /\ swin = 0
    /\ scall = 0
    /\ cutoff = 0
    /\ sidx = 0
    /\ sres = <<>>
    /\ sview = <<>>

(* No CTAGUI is built in the buffer and trigger specifications. *)
InitNoApp ==
    /\ stop_event = FALSE
    /\ mpc = "none"
    /\ inInit = FALSE
    /\ afterPending = FALSE
    /\ lpc = [p \in Producers |-> "off"]
    /\ running_threads = {}
    /\ start_btn = TRUE
    /\ start_time = 0
    /\ sessions = 0
    /\ ctx = <<>>
    /\ question = "none"
    /\ answer = "none"
    /\ wav = FALSE
    /\ qa_log = <<>>
    /\ session_log = <<>>
    /\ cycle = "none"
    /\ lpAtTick = 0
    /\ qaAtTick = 0
    /\ prevFire = -1
    /\ lastFire = -1
    /\ runFrom = 0

InitBuf ==
    /\ now = 0
    /\ maxlen = BufCap
    /\ InitBuffer
    /\ InitTrigger
    /\ InitNoApp

(* The caller of snapshot has the list and drops it; the next call may
   start. *)
BufTake ==
    /\ spc = "done"
    /\ sret = "test"
    /\ SnapReset
    /\ UNCHANGED <<clockVars, bufVars, adderVars, trigVars, evalVars, appVars,
                   histVars>>

NextBuf ==
    \/ \E d \in BufSteps : Tick(d, BufMaxTime)
    \/ \E p \in Producers : \E txt \in BufTexts(p) : AddCall(p, txt, MaxAdds)
    \/ \E p \in Producers : AddAcquire(p)
    \/ \E p \in Producers : AddAppend(p)
    \/ \E w \in Windows : SnapCall("test", w)
    \/ SnapAcquire
    \/ SnapIter
    \/ SnapReturn
    \/ BufTake

SpecBuf == InitBuf /\ [][NextBuf]_vars

(***************************************************************************)
(* The trigger specification: one TelemetryBuffer and one TriggerEngine    *)
(* driven by a single thread, which appends events, lets the clock run,    *)
(* calls evaluate and writes last_prompt the way monitor_loop does.        *)
(***************************************************************************)
EvalCap     == 4        \* the maxlen of the buffer in the trigger specification
EvalMaxAdds == 4        \* add calls in one run of the trigger specification
EvalMaxTime == 41       \* the clock stops here in the trigger specification
EvalSteps   == {5, 16}  \* clock advances drawn in the trigger specification
EvalTexts   == {KeyPress, FileCreate}

InitEval ==
    /\ now = 0
    /\ maxlen = EvalCap
    /\ InitBuffer
    /\ InitTrigger
    /\ InitNoApp

(* snapshot(w) run to its end with nothing else running. *)
SnapshotOf(b, t, w) == FormatAll(SelectSeq(b, LAMBDA e : InWindow(e.ts, t - w)))

(* telemetry.add(txt), run to its end. *)
TestAdd(txt) ==
    /\ tpc = "ready"
    /\ Len(appended) < EvalMaxAdds
    /\ CanAcquire
    /\ buf' = DequeAppend(buf, maxlen, Event(now, txt))
    /\ appended' = Append(appended, Event(now, txt))
    /\ UNCHANGED <<maxlen, lock, clockVars, adderVars, snapVars, trigVars, evalVars, appVars,
                   histVars>>

(* trigger.evaluate(telemetry), run to its end. *)
TestEvaluate ==
    /\ tpc = "ready"
    /\ CanAcquire
    /\ LET recent == SnapshotOf(buf, now, IdleLookback)
       IN  /\ hint' = EvaluateHint(recent, now, last_prompt, file_events)
           /\ file_events' = EvaluateFileEvents(recent, now, last_prompt, file_events)
    /\ evalNow' = now
    /\ tpc' = "returned"
    /\ UNCHANGED <<last_prompt, clockVars, bufVars, adderVars, snapVars, appVars,
                   histVars>>

(* The caller has looked at what evaluate returned. *)
TestTake ==
    /\ tpc = "returned"
    /\ tpc' = "ready"
    /\ hint' = NoHint
    /\ evalNow' = 0
    /\ UNCHANGED <<trigVars, clockVars, bufVars, adderVars, snapVars, appVars,
                   histVars>>

(* self.trigger.last_prompt = time.time() *)
TestSetLastPrompt ==
    /\ tpc = "ready"
    /\ last_prompt # now
    /\ last_prompt' = now
    /\ UNCHANGED <<file_events, evalVars, clockVars, bufVars, adderVars, snapVars, appVars,
                   histVars>>

TestTick(d) ==
    /\ tpc = "ready"
    /\ Tick(d, EvalMaxTime)

NextEval ==
    \/ \E d \in EvalSteps : TestTick(d)
    \/ \E txt \in EvalTexts : TestAdd(txt)
    \/ TestEvaluate
    \/ TestTake
    \/ TestSetLastPrompt

SpecEval == InitEval /\ [][NextEval]_vars

(***************************************************************************)
(* CTAGUI: the Tk main thread (monitor_loop, ask_cta_question, start_task, *)
(* stop_task, dump_log) and the three producer threads.                    *)
(***************************************************************************)
AppCap        == 1      \* the maxlen of the application's buffer
AppMaxAdds    == 2      \* add calls in one run of the application
AppMaxTime    == 32     \* the clock stops here
MaxSessions   == 2      \* start_task runs at most this often
AppSteps      == {16}   \* clock advances drawn
AppStart      == 16     \* the clock when CTAGUI() is built: time.time() is
                        \* seconds since 1970, far more than 15

CtxLogLines == 20   \* ctx[-20:]

(* The texts drawn in the application. *)
AppTexts(p) ==
    CASE p = "win"   -> {WinTitle, WinError}
      [] p = "input" -> {KeyPress}
      [] p = "fs"    -> {FileCreate}

(* CTAGUI.__init__ up to its last line, the first monitor_loop call. *)
InitApp ==
    /\ stop_event = FALSE
    /\ mpc = "mon"
    /\ inInit = TRUE
    /\ afterPending = FALSE
    /\ lpc = [p \in Producers |-> "off"]
    /\ running_threads = {}
    /\ start_btn = TRUE
    /\ start_time = 0
    /\ sessions = 0
    /\ ctx = <<>>
    /\ question = "none"
    /\ answer = "none"
    /\ wav = FALSE
    /\ qa_log = <<>>
    /\ session_log = <<>>
    /\ cycle = "none"
    /\ lpAtTick = 0
    /\ qaAtTick = 0
    /\ prevFire = -1
    /\ lastFire = -1
    /\ runFrom = 0

Init ==
    /\ now = AppStart
    /\ maxlen = AppCap
    /\ InitBuffer
    /\ InitTrigger
    /\ InitApp

(* The locals of monitor_loop and ask_cta_question are gone. *)
CycleReset ==
    /\ hint' = NoHint
    /\ evalNow' = 0
    /\ ctx' = <<>>
    /\ question' = "none"
    /\ answer' = "none"

(* monitor_loop entered: `if not self.stop_event.is_set()`; when clear,
   evaluate is called and reads now. *)
MonEnter ==
    /\ mpc = "mon"
    /\ lpAtTick' = last_prompt
    /\ qaAtTick' = Len(qa_log)
    /\ IF stop_event
         THEN /\ afterPending' = TRUE
              /\ mpc' = "loop"
              /\ inInit' = FALSE
              /\ cycle' = "stopped"
              /\ UNCHANGED evalNow
         ELSE /\ mpc' = "eval"
              /\ evalNow' = now
              /\ cycle' = "tick"
              /\ UNCHANGED <<afterPending, inInit>>
    /\ UNCHANGED <<hint, tpc, stop_event, lpc, running_threads, start_btn,
                   start_time, sessions, ctx, question, answer, wav, qa_log,
                   session_log, prevFire, lastFire, runFrom, clockVars, bufVars,
                   adderVars, snapVars, trigVars>>

(* evaluate: recent = telemetry.snapshot(6) *)
EvalSnapCall ==
    /\ mpc = "eval"
    /\ SnapCall("eval", IdleLookback)

(* evaluate returns; monitor_loop tests `if hint`: with no hint it schedules
   itself again, with a hint it goes on to take the context. *)
EvalReturn ==
    /\ mpc = "eval"
    /\ spc = "done"
    /\ LET h == EvaluateHint(sres, evalNow, last_prompt, file_events)
       IN  /\ file_events' = EvaluateFileEvents(sres, evalNow, last_prompt, file_events)
           /\ prevFire' = IF h = IdleReason THEN lastFire ELSE prevFire
           /\ lastFire' = IF h = IdleReason THEN evalNow ELSE lastFire
           /\ IF h = NoHint
                THEN /\ afterPending' = TRUE
                     /\ mpc' = "loop"
                     /\ inInit' = FALSE
                     /\ cycle' = "nohint"
                     /\ hint' = NoHint
                     /\ evalNow' = 0
                ELSE /\ mpc' = "ctx"
                     /\ hint' = h
                     /\ UNCHANGED <<afterPending, inInit, cycle, evalNow>>
    /\ SnapReset
    /\ UNCHANGED <<last_prompt, tpc, stop_event, lpc, running_threads, start_btn,
                   start_time, sessions, ctx, question, answer, wav, qa_log,
                   session_log, lpAtTick, qaAtTick, runFrom, clockVars, bufVars,
                   adderVars>>

(* monitor_loop: ctx = self.telemetry.snapshot(60) *)
CtxSnapCall ==
    /\ mpc = "ctx"
    /\ SnapCall("ctx", CtxWindow)

(* snapshot(60) has returned, its `with self.lock:` left, when the next
   statement of monitor_loop runs. *)
CtxTakenUnderLock == spc = "iter" /\ sidx >= Len(buf)

CtxTaken == spc = "done"

(* The context is taken; llm_generate_question is called. *)
CtxReturn ==
    /\ mpc = "ctx"
    /\ CtxTaken
    /\ ctx' = sres
    /\ mpc' = "llm"
    /\ SnapReset
    /\ UNCHANGED <<stop_event, inInit, afterPending, lpc, running_threads,
                   start_btn, start_time, sessions, question, answer, wav, qa_log,
                   session_log, histVars, clockVars, bufVars, adderVars, trigVars,
                   evalVars>>

(* last_prompt after an exception has left monitor_loop: line 194 was not
   reached. *)
AbortLastPromptStamped(lp, t) == t

AbortLastPrompt(lp, t) == lp

(* An exception leaves monitor_loop: neither line 194 nor line 195 runs.  In
   the call made by __init__ it leaves CTAGUI() too; in a call made by Tk it
   is reported and the event loop goes on. *)
MonAbort(outcome) ==
    /\ cycle' = outcome
    /\ last_prompt' = AbortLastPrompt(last_prompt, now)
    /\ mpc' = IF inInit THEN "crashed" ELSE "loop"
    /\ CycleReset
    /\ UNCHANGED <<file_events, tpc, stop_event, inInit, afterPending, lpc,
                   running_threads, start_btn, start_time, sessions, wav, qa_log,
                   session_log, lpAtTick, qaAtTick, prevFire, lastFire, runFrom,
                   clockVars, bufVars, adderVars, snapVars>>

(* llm_generate_question returns the question. *)
LlmOk ==
    /\ mpc = "llm"
    /\ question' = "question"
    /\ mpc' = "ask"
    /\ UNCHANGED <<stop_event, inInit, afterPending, lpc, running_threads,
                   start_btn, start_time, sessions, ctx, answer, wav, qa_log,
                   session_log, histVars, clockVars, bufVars, adderVars, snapVars,
                   trigVars, evalVars>>

(* llm_generate_question raises. *)
LlmFail ==
    /\ mpc = "llm"
    /\ MonAbort("llm_failed")

(* messagebox.askyesno returns True. *)
AskAccept ==
    /\ mpc = "ask"
    /\ mpc' = "record"
    /\ UNCHANGED <<stop_event, inInit, afterPending, lpc, running_threads,
                   start_btn, start_time, sessions, ctx, question, answer, wav,
                   qa_log, session_log, histVars, clockVars, bufVars, adderVars,
                   snapVars, trigVars, evalVars>>

(* messagebox.askyesno returns False. *)
AskDecline ==
    /\ mpc = "ask"
    /\ mpc' = "log"
    /\ UNCHANGED <<stop_event, inInit, afterPending, lpc, running_threads,
                   start_btn, start_time, sessions, ctx, question, answer, wav,
                   qa_log, session_log, histVars, clockVars, bufVars, adderVars,
                   snapVars, trigVars, evalVars>>

(* record_audio writes the file and returns. *)
RecordOk ==
    /\ mpc = "record"
    /\ wav' = TRUE
    /\ mpc' = "transcribe"
    /\ UNCHANGED <<stop_event, inInit, afterPending, lpc, running_threads,
                   start_btn, start_time, sessions, ctx, question, answer, qa_log,
                   session_log, histVars, clockVars, bufVars, adderVars, snapVars,
                   trigVars, evalVars>>

(* record_audio raises before the file is written. *)
RecordFail ==
    /\ mpc = "record"
    /\ MonAbort("record_failed")

(* transcribe_audio returns the text; os.remove(wav_fn). *)
TranscribeOk ==
    /\ mpc = "transcribe"
    /\ answer' = "text"
    /\ wav' = FALSE
    /\ mpc' = "log"
    /\ UNCHANGED <<stop_event, inInit, afterPending, lpc, running_threads,
                   start_btn, start_time, sessions, ctx, question, qa_log,
                   session_log, histVars, clockVars, bufVars, adderVars, snapVars,
                   trigVars, evalVars>>

(* transcribe_audio raises: os.remove is not reached. *)
TranscribeFail ==
    /\ mpc = "transcribe"
    /\ MonAbort("transcribe_failed")

QARecord(q, a, c) == [question |-> q, answer |-> a, context |-> c]

(* last_prompt after a cycle that ran to its end: time.time(). *)
FinishLastPromptKept(lp, t) == lp

FinishLastPrompt(lp, t) == t

(* The record is appended to cta_log.jsonl; back in monitor_loop,
   last_prompt = time.time() and self.after(1000, self.monitor_loop). *)
LogWrite ==
    /\ mpc = "log"
    /\ qa_log' = Append(qa_log, QARecord(question, answer, LastN(ctx, CtxLogLines)))
    /\ last_prompt' = FinishLastPrompt(last_prompt, now)
    /\ afterPending' = TRUE
    /\ mpc' = "loop"
    /\ inInit' = FALSE
    /\ cycle' = "completed"
    /\ CycleReset
    /\ UNCHANGED <<file_events, tpc, stop_event, lpc, running_threads, start_btn,
                   start_time, sessions, wav, session_log, lpAtTick, qaAtTick,
                   prevFire, lastFire, runFrom, clockVars, bufVars, adderVars,
                   snapVars>>

(* open("cta_log.jsonl", "a") raises. *)
LogFail ==
    /\ mpc = "log"
    /\ MonAbort("log_failed")

(* self.after(1000, f) runs f once: the timer is spent when f is called. *)
AfterStaysPending == TRUE

AfterOneShot == FALSE

(* Tk runs the scheduled monitor_loop call. *)
TimerFire ==
    /\ mpc = "loop"
    /\ afterPending
    /\ afterPending' = AfterOneShot
    /\ mpc' = "mon"
    /\ UNCHANGED <<stop_event, inInit, lpc, running_threads, start_btn,
                   start_time, sessions, ctx, question, answer, wav, qa_log,
                   session_log, histVars, clockVars, bufVars, adderVars, snapVars,
                   trigVars, evalVars>>

(* TASK START pressed: start_task. *)
StartTask ==
    /\ mpc = "loop"
    /\ start_btn
    /\ sessions < MaxSessions
    /\ stop_event' = FALSE
    /\ start_time' = now
    /\ lpc' = [p \in Producers |-> "run"]
    /\ running_threads' = running_threads \cup Producers
    /\ start_btn' = FALSE
    /\ sessions' = sessions + 1
    /\ runFrom' = Len(appended)
    /\ UNCHANGED <<mpc, inInit, afterPending, ctx, question, answer, wav, qa_log,
                   session_log, cycle, lpAtTick, qaAtTick, prevFire, lastFire,
                   clockVars, bufVars, adderVars, snapVars, trigVars, evalVars>>

(* TASK STOP pressed: stop_task sets the event and starts joining. *)
StopSet ==
    /\ mpc = "loop"
    /\ ~start_btn
    /\ stop_event' = TRUE
    /\ mpc' = "join"
    /\ UNCHANGED <<inInit, afterPending, lpc, running_threads, start_btn,
                   start_time, sessions, ctx, question, answer, wav, qa_log,
                   session_log, histVars, clockVars, bufVars, adderVars, snapVars,
                   trigVars, evalVars>>

(* stop_task: every th.join() has returned; running_threads.clear(). *)
StopJoin ==
    /\ mpc = "join"
    /\ \A p \in running_threads : lpc[p] = "done"
    /\ running_threads' = {}
    /\ mpc' = "dump"
    /\ UNCHANGED <<stop_event, inInit, afterPending, lpc, start_btn, start_time,
                   sessions, ctx, question, answer, wav, qa_log, session_log,
                   histVars, clockVars, bufVars, adderVars, snapVars, trigVars,
                   evalVars>>

(* dump_log: self.telemetry.snapshot(10**9) *)
DumpSnapCall ==
    /\ mpc = "dump"
    /\ SnapCall("dump", FullWindow)

(* open(fn, "w"): the file of that name is replaced. *)
WriteFile(files, name, lines) ==
    IF \E i \in 1..Len(files) : files[i].name = name
      THEN [i \in 1..Len(files) |->
               IF files[i].name = name
                 THEN [name |-> name, lines |-> lines]
                 ELSE files[i]]
      ELSE Append(files, [name |-> name, lines |-> lines])

(* dump_log writes session_<start_time>.log; stop_task enables TASK START. *)
DumpReturn ==
    /\ mpc = "dump"
    /\ spc = "done"
    /\ session_log' = WriteFile(session_log, start_time, sres)
    /\ start_btn' = TRUE
    /\ mpc' = "loop"
    /\ SnapReset
    /\ UNCHANGED <<stop_event, inInit, afterPending, lpc, running_threads,
                   start_time, sessions, ctx, question, answer, wav, qa_log,
                   histVars, clockVars, bufVars, adderVars, trigVars, evalVars>>

(* poll_active_window: the event is clear, the probe returns or raises, and
   telemetry.add is called with the title or the error. *)
WinPoll(txt) ==
    /\ lpc["win"] = "run"
    /\ ~stop_event
    /\ AddCall("win", txt, AppMaxAdds)

(* A key press or a mouse-down is delivered to the listener's callback. *)
InputEvent(txt) ==
    /\ lpc["input"] = "run"
    /\ AddCall("input", txt, AppMaxAdds)

(* A create or modify event is delivered to FSHandler. *)
FsEvent(txt) ==
    /\ lpc["fs"] = "run"
    /\ AddCall("fs", txt, AppMaxAdds)

(* `while not stop_event.is_set()`: the loop of a producer ends only when its
   test finds the event set; nothing in the loop body breaks or raises out of
   it (the poller catches the exceptions of its probe). *)
LoopEndsAnyTime == TRUE

LoopEnds == stop_event

(* A producer thread sees the event set and ends.  The poller tests it
   between two iterations; watch_fs joins the observer, which ends after the
   handler call it is in; hook_input stops its listeners without joining
   them. *)
ProducerExit(p) ==
    /\ lpc[p] = "run"
    /\ LoopEnds
    /\ p \in {"win", "fs"} => apc[p] = "idle"
    /\ lpc' = [lpc EXCEPT ![p] = "done"]
    /\ UNCHANGED <<stop_event, mpc, inInit, afterPending, running_threads,
                   start_btn, start_time, sessions, ctx, question, answer, wav,
                   qa_log, session_log, histVars, clockVars, bufVars, adderVars,
                   snapVars, trigVars, evalVars>>

Next ==
    \/ \E d \in AppSteps : Tick(d, AppMaxTime)
    \/ MonEnter
    \/ EvalSnapCall
    \/ EvalReturn
    \/ CtxSnapCall
    \/ CtxReturn
    \/ LlmOk
    \/ LlmFail
    \/ AskAccept
    \/ AskDecline
    \/ RecordOk
    \/ RecordFail
    \/ TranscribeOk
    \/ TranscribeFail
    \/ LogWrite
    \/ LogFail
    \/ TimerFire
    \/ StartTask
    \/ StopSet
    \/ StopJoin
    \/ DumpSnapCall
    \/ DumpReturn
    \/ SnapAcquire
    \/ SnapIter
    \/ SnapReturn
    \/ \E txt \in AppTexts("win") : WinPoll(txt)
    \/ \E txt \in AppTexts("input") : InputEvent(txt)
    \/ \E txt \in AppTexts("fs") : FsEvent(txt)
    \/ \E p \in Producers : AddAcquire(p)
    \/ \E p \in Producers : AddAppend(p)
    \/ \E p \in Producers : ProducerExit(p)

Spec == Init /\ [][Next]_vars

(* The scheduler runs every thread that can run: an add or a snapshot that
   can take its next step takes it, a producer that can see the event set
   ends, and a join whose threads have ended returns. *)
Fairness ==
    /\ \A p \in Producers :
           /\ WF_vars(AddAcquire(p))
           /\ WF_vars(AddAppend(p))
           /\ WF_vars(ProducerExit(p))
    /\ WF_vars(SnapAcquire)
    /\ WF_vars(SnapIter)
    /\ WF_vars(SnapReturn)
    /\ WF_vars(StopJoin)

SpecLive == Spec /\ Fairness

(***************************************************************************)
(* Properties of the TelemetryBuffer.                                      *)
(***************************************************************************)
(* C1: a returned snapshot(window) holds exactly the buffered events whose
   timestamp >= now - window, where now is the clock the call read on entry,
   formatted, in insertion order, and never more than maxlen of them. *)
C1_SnapshotWindow ==
    spc = "done" =>
        LET kept == SelectSeq(sview, LAMBDA e : e.ts >= scall - swin)
        IN  /\ Len(sres) = Len(kept)
            /\ \A j \in 1..Len(kept) : sres[j] = FormatLine(kept[j])
            /\ Len(sres) <= maxlen

(* A full buffer is read: its older event is outside the 6 second window and
   its newer event is exactly on the cutoff, and is returned. *)
C1_Witness ==
    /\ spc = "done"
    /\ swin = IdleLookback
    /\ Len(sview) = maxlen
    /\ sview[1].ts < scall - swin
    /\ sview[Len(sview)].ts = scall - swin
    /\ Len(sres) = Len(sview) - 1

(* C2: eviction is FIFO.  The buffer always holds the last maxlen appended
   events in append order, and a returned full-window snapshot is the last
   maxlen of the events appended up to some instant: after maxlen + 1 appends
   the earliest one is gone. *)
C2_FifoEviction ==
    /\ buf = LastN(appended, maxlen)
    /\ (spc = "done" /\ swin = FullWindow) =>
           \E k \in 0..Len(appended) :
               sres = FormatAll(LastN(SubSeq(appended, 1, k), maxlen))

(* maxlen + 1 events were appended and the full-window snapshot returned the
   last maxlen of them, without the first. *)
C2_Witness ==
    /\ spc = "done"
    /\ swin = FullWindow
    /\ Len(appended) = maxlen + 1
    /\ sres = FormatAll(Tail(appended))
    /\ \A i \in 1..Len(sres) : sres[i] # FormatLine(appended[1])

(* C3: the timestamps of the buffered events never decrease in insertion
   order, whatever the interleaving of the producers' add calls. *)
C3_TimestampOrder ==
    \A i, j \in 1..Len(buf) : i < j => buf[i].ts <= buf[j].ts

(* Two producers appended at different times while a third one waits for
   the lock. *)
C3_Witness ==
    /\ Len(buf) >= 2
    /\ buf[1].ts < buf[2].ts
    /\ buf[1].txt # buf[2].txt
    /\ \E p \in Producers : apc[p] = "want"

(* C4: a snapshot reads one state of the buffer.  While the comprehension
   runs the deque is the one it started on, the main thread holds the lock and
   no producer is inside the critical section of add; the list built is the
   filter of the items visited of that one deque. *)
C4_AtomicSnapshot ==
    /\ spc = "iter" =>
           /\ buf = sview
           /\ lock = "main"
           /\ \A p \in Producers : apc[p] # "locked"
    /\ spc \in {"iter", "done"} =>
           sres = FormatAll(SelectSeq(SubSeq(sview, 1, sidx),
                                      LAMBDA e : e.ts >= cutoff))

(* The comprehension is under way, an item was kept, and a producer's add is
   waiting for the lock. *)
C4_Witness ==
    /\ spc = "iter"
    /\ sidx >= 1
    /\ sidx < Len(buf)
    /\ Len(sres) >= 1
    /\ \E p \in Producers : apc[p] = "want"

(***************************************************************************)
(* Properties of TriggerEngine.evaluate.                                   *)
(***************************************************************************)
IsInput(e) == e.txt[1] \in {"[key]", "[mouse]"}

IsFileCreate(e) == e.txt[1] = "[file+]"

(* No [key] or [mouse] event in the trailing 6 seconds of the buffer. *)
NoRecentInput ==
    \A i \in 1..Len(buf) : ~(IsInput(buf[i]) /\ buf[i].ts >= evalNow - IdleLookback)

(* The [file+] events of the buffer not older than 30 seconds. *)
RecentFileCreates ==
    {i \in 1..Len(buf) : IsFileCreate(buf[i]) /\ evalNow - buf[i].ts <= FileWindow}

(* C5: evaluate returns the idle-pause reason if and only if no [key] or
   [mouse] event is in the trailing 6 seconds of the buffer and at least 15
   seconds have passed since last_prompt. *)
C5_IdlePauseIff ==
    tpc = "returned" =>
        (hint = IdleReason <=>
            (NoRecentInput /\ evalNow - last_prompt >= IdleCooldown))

(* C7: evaluate returns the file-burst reason if and only if at least 3
   [file+] events lie in the trailing 30 seconds and at least 30 seconds have
   passed since last_prompt (and the idle-pause rule, which is evaluated
   first, does not apply). *)
C7_FileBurstIff ==
    tpc = "returned" =>
        (hint = FileReason <=>
            /\ Cardinality(RecentFileCreates) >= BurstCount
            /\ evalNow - last_prompt >= FileCooldown
            /\ ~(NoRecentInput /\ evalNow - last_prompt >= IdleCooldown))

(* Three [file+] events appended at t = 0, 10, 20. *)
ScenarioBuf ==
    <<Event(0, FileCreate), Event(10, FileCreate), Event(20, FileCreate)>>

(* C8, as stated: in the scenario evaluate returns the file-burst reason at
   t = 25 and no trigger at t = 41. *)
C8_ScenarioAsStated ==
    (tpc = "returned" /\ buf = ScenarioBuf /\ last_prompt = 0) =>
        /\ evalNow = 25 => hint = FileReason
        /\ evalNow = 41 => hint = NoHint

(* C8, amended: in the scenario evaluate returns the idle-pause reason at
   t = 25 and again at t = 41: no [key] or [mouse] event is in the buffer and
   more than 15 seconds have passed since last_prompt = 0, so rule 1 returns
   before rule 2 is looked at. *)
C8_ScenarioIdle ==
    (tpc = "returned" /\ buf = ScenarioBuf /\ last_prompt = 0) =>
        /\ evalNow = 25 => hint = IdleReason
        /\ evalNow = 41 => hint = IdleReason

(* The scenario's second call: evaluate has returned at t = 41. *)
C8_Witness ==
    /\ tpc = "returned"
    /\ buf = ScenarioBuf
    /\ last_prompt = 0
    /\ evalNow = 41
    /\ hint = IdleReason

(***************************************************************************)
(* Properties of the monitor loop.                                         *)
(***************************************************************************)
FailedCycles == {"llm_failed", "record_failed", "transcribe_failed", "log_failed"}

(* C6: any two monitor_loop ticks at which evaluate returns the idle-pause
   reason are more than 15 seconds apart (prevFire and lastFire are the clock
   readings of evaluate at the last two such returns). *)
C6_IdleDebounce ==
    prevFire # -1 => lastFire - prevFire > IdleCooldown

(* The idle-pause rule has fired at two ticks, with a completed cycle in
   between. *)
C6_Witness ==
    /\ prevFire # -1
    /\ lastFire > prevFire
    /\ Len(qa_log) >= 1
    /\ last_prompt >= prevFire

(* C9: when llm_generate_question has failed in a triggered cycle,
   last_prompt has the value it had when the tick started and qa_log has no
   new record. *)
C9_LlmFailureKeepsState ==
    cycle = "llm_failed" =>
        /\ last_prompt = lpAtTick
        /\ Len(qa_log) = qaAtTick

(* The question generation failed in a tick run by Tk, after an earlier
   cycle had written a record and set last_prompt. *)
C9_Witness ==
    /\ cycle = "llm_failed"
    /\ mpc = "loop"
    /\ lpAtTick > 0
    /\ qaAtTick >= 1

(* C10: an error in an interaction cycle does not end the scheduling loop:
   when the main thread is back in the event loop after such an error, a
   monitor_loop call is pending. *)
C10_LoopSurvivesErrors ==
    (cycle \in FailedCycles /\ mpc = "loop") =>
        afterPending

(***************************************************************************)
(* Properties of ask_cta_question.                                         *)
(***************************************************************************)
(* C11: once a question has been obtained, a declined recording, a failed
   capture and a failed transcription each end with exactly one new record in
   the QA log, whose answer is absent and whose question and context are the
   ones of the cycle. *)
C11_AbsentAnswerRecorded ==
    [][(/\ mpc \in {"log", "record", "transcribe"}
        /\ answer = "none"
        /\ mpc' \in {"loop", "crashed"}
        /\ cycle' # "log_failed")
          => qa_log' = Append(qa_log,
                              QARecord(question, "none", LastN(ctx, CtxLogLines)))]_vars

(* C12: the temporary audio file exists only while the capture/transcription
   step is under way: whenever the main thread is outside that step the file
   has been removed. *)
C12_AudioFileRemoved ==
    wav => mpc = "transcribe"

(***************************************************************************)
(* Properties of start_task, stop_task and the producers.                  *)
(***************************************************************************)
(* C13: while dump_log runs, from the call of its snapshot to the write of
   the file, the cancellation signal is set, no producer thread of the session
   is running, and no producer add is under way or can still append. *)
C13_DumpAfterProducers ==
    mpc = "dump" =>
        /\ stop_event
        /\ \A p \in Producers : lpc[p] # "run"
        /\ \A p \in Producers : apc[p] = "idle"

(* C14: the buffer lock is only ever held by a thread inside a critical
   section it is about to leave (a producer in add, the main thread in
   snapshot), never by a producer that has ended; a held lock is released;
   once stop_task has set the cancellation signal and waits in its joins,
   whatever the producers are doing, all three producers end and the joins
   return. *)
C14_ProducersTerminate ==
    /\ [](\A p \in Producers : lock = p => apc[p] = "locked")
    /\ [](lock = "main" => spc = "iter")
    /\ [](\A p \in {"win", "fs"} : lpc[p] = "done" => apc[p] = "idle")
    /\ (lock # "free") ~> (lock = "free")
    /\ (mpc = "join") ~> (mpc = "dump" /\ \A p \in Producers : lpc[p] = "done")

(* The cancellation signal is set while the window poller is inside add with
   the lock held and the file watcher's handler waits for the lock. *)
C14_Witness ==
    /\ mpc = "join"
    /\ stop_event
    /\ lpc["win"] = "run" /\ apc["win"] = "locked" /\ lock = "win"
    /\ lpc["fs"] = "run" /\ apc["fs"] = "want"

(***************************************************************************)
(* Properties of the scheduling of monitor_loop.                           *)
(***************************************************************************)
InCycle == {"mon", "eval", "ctx", "llm", "ask", "record", "transcribe", "log"}

RanToEnd == {"nohint", "completed", "stopped"}

(* C15: at most one interaction cycle is in progress.  While a monitor_loop
   call is running, the modal dialogs of the cycle included, no other
   monitor_loop call is scheduled, so none can start inside it; a tick starts
   only from the idle event loop, after the previous call ran to its end, and
   when that call was a fired cycle its record is in the QA log and last_prompt
   was set. *)
C15_OneCycleAtATime ==
    /\ [](mpc \in InCycle => ~afterPending)
    /\ [][(mpc # "mon" /\ mpc' = "mon") =>
            /\ mpc = "loop"
            /\ afterPending
            /\ cycle \in RanToEnd
            /\ cycle = "completed" =>
                   /\ Len(qa_log) = qaAtTick + 1
                   /\ last_prompt > lpAtTick
                   /\ question = "none"]_vars

(* The evaluation of a later tick is under way after a cycle that fired,
   asked its question and logged the record. *)
C15_Witness ==
    /\ mpc = "eval"
    /\ ~inInit
    /\ ~afterPending
    /\ Len(qa_log) >= 1
    /\ lpAtTick > 0
    /\ evalNow - lpAtTick > IdleCooldown

(* C16: last_prompt changes only in the step that ends a fired cycle of
   monitor_loop, after the question was asked and the record logged, and it
   is set to the clock; no step of evaluate, of a producer, of start_task or
   of stop_task, and no aborted cycle, changes it. *)
C16_LastPromptWriter ==
    [][last_prompt' # last_prompt =>
          /\ mpc = "log"
          /\ mpc' = "loop"
          /\ hint # NoHint
          /\ question # "none"
          /\ cycle' = "completed"
          /\ Len(qa_log') = Len(qa_log) + 1
          /\ last_prompt' = now]_vars

(* A fired cycle has ended during a session and set last_prompt, while the
   producers were running and evaluate had been called. *)
C16_Witness ==
    /\ mpc = "loop"
    /\ cycle = "completed"
    /\ last_prompt = now
    /\ last_prompt > lpAtTick
    /\ lpAtTick > 0
    /\ \E p \in Producers : lpc[p] = "run"
    /\ Len(appended) >= 1

(***************************************************************************)
(* Properties of the session log.                                          *)
(***************************************************************************)
(* The lines of the file of that name. *)
LogOf(files, name) ==
    LET i == CHOOSE i \in 1..Len(files) : files[i].name = name
    IN  files[i].lines

(* C17: the session log written by stop_task holds, in order, one formatted
   line for every event appended since the run's start_task: the events of the
   run are the last lines of the file. *)
C17_SessionLogComplete ==
    [][(mpc = "dump" /\ mpc' = "loop") =>
          LET run   == SubSeq(appended, runFrom + 1, Len(appended))
              lines == LogOf(session_log', start_time)
          IN  /\ Len(lines) >= Len(run)
              /\ LastN(lines, Len(run)) = FormatAll(run)]_vars

(***************************************************************************)
(* Properties of the buffer lock during an interaction cycle.              *)
(***************************************************************************)
(* The steps of a cycle that wait for the network, the user or the
   microphone. *)
Blocked == {"llm", "ask", "record", "transcribe"}

(* C18: while the cycle is blocked the main thread is in no snapshot call and
   does not hold the lock; the lock is free or held by a producer that is
   inside add and about to release it, so every add that waits can go on. *)
C18_NoLockWhileBlocked ==
    mpc \in Blocked =>
        /\ spc = "none"
        /\ lock # "main"
        /\ \A p \in Producers : apc[p] = "locked" => lock = p
        /\ \A p \in Producers :
               apc[p] = "want" =>
                   \/ lock = "free"
                   \/ lock \in Producers /\ apc[lock] = "locked"

(* The user is being asked; the context taken for this cycle was empty and
   an event has been appended since, while another producer is inside add. *)
C18_Witness ==
    /\ mpc = "ask"
    /\ ctx = <<>>
    /\ Len(appended) >= 1
    /\ \E p \in Producers : lpc[p] = "run" /\ apc[p] = "locked" /\ lock = p

(***************************************************************************)
(* Properties of the order of the rules of TriggerEngine.evaluate.         *)
(***************************************************************************)
(* The conditions of the two rules, read off the buffer at the call. *)
IdleCondition ==
    NoRecentInput /\ evalNow - last_prompt > IdleCooldown

BurstCondition ==
    Cardinality(RecentFileCreates) >= BurstCount /\ evalNow - last_prompt >= FileCooldown

(* C19: on a call where the idle-pause condition and the file-burst condition
   both hold, evaluate returns one reason, the idle-pause reason. *)
C19_IdleFirst ==
    (tpc = "returned" /\ IdleCondition /\ BurstCondition) => hint = IdleReason

(* evaluate has returned the idle-pause reason on a call with three [file+]
   events in the trailing 30 seconds, no input event in the trailing 6 and
   more than 30 seconds since last_prompt. *)
C19_Witness ==
    /\ tpc = "returned"
    /\ IdleCondition
    /\ BurstCondition
    /\ evalNow - last_prompt > FileCooldown
    /\ hint = IdleReason
    /\ hint # FileReason

(* C20: after any evaluate call, whatever it returned, every entry ts of
   file_events satisfies now - ts < 30.  True in every reachable state, but
   only because file_events is never appended to: no snapshot line starts
   with [file+], so the list is always empty and no entry is ever there to be
   dropped or kept. *)
C20_FileEventsPruned ==
    tpc = "returned" =>
        \A i \in 1..Len(file_events) : evalNow - file_events[i] < FileWindow

(***************************************************************************)
(* Properties of poll_active_window.                                       *)
(***************************************************************************)
(* C21: a failed probe makes the poller call add with the [win] ERROR text,
   that call appends exactly that one event, and the poller is still running
   afterwards; the poller's thread ends only with the cancellation signal
   set, so it has ended only while the signal is set. *)
C21_PollerSurvivesProbeFailure ==
    /\ [](lpc["win"] = "done" => stop_event)
    /\ [][(lpc["win"] = "run" /\ lpc'["win"] # "run") => stop_event]_vars
    /\ [][(pend["win"] # WinError /\ pend'["win"] = WinError) =>
              /\ apc'["win"] = "want"
              /\ lpc'["win"] = "run"]_vars
    /\ [][(pend["win"] = WinError /\ apc["win"] = "locked" /\ apc'["win"] = "idle") =>
              /\ appended' = Append(appended, Event(stamp["win"], WinError))
              /\ lpc'["win"] = "run"]_vars

(* The probe failed in one iteration and succeeded in a later one: the error
   event is followed by a title event of the poller, which is still running
   with the signal clear. *)
C21_Witness ==
    /\ lpc["win"] = "run"
    /\ ~stop_event
    /\ Len(appended) >= 2
    /\ appended[Len(appended) - 1].txt = WinError
    /\ appended[Len(appended)].txt = WinTitle

(***************************************************************************)
(* Properties of the interplay of the two rules of evaluate.               *)
(***************************************************************************)
(* A [file+] event lies in the trailing 6 seconds of the buffer. *)
RecentFileCreate ==
    \E i \in 1..Len(buf) : IsFileCreate(buf[i]) /\ buf[i].ts >= evalNow - IdleLookback

(* C22: a call of evaluate that returns the file-burst reason has a [key] or
   [mouse] event in the trailing 6 seconds of the buffer; a call with no such
   event and more than 30 seconds since last_prompt returns the idle-pause
   reason and leaves file_events as it was, neither pruned nor extended. *)
C22_IdlePreemptsBurst ==
    [][(tpc = "ready" /\ tpc' = "returned") =>
          /\ hint' = FileReason => ~NoRecentInput'
          /\ (NoRecentInput' /\ evalNow' - last_prompt' > FileCooldown) =>
                 /\ hint' = IdleReason
                 /\ file_events' = file_events]_vars

(* evaluate has returned the idle-pause reason more than 30 seconds after
   last_prompt, with no input event but a [file+] event in the trailing 6
   seconds, and file_events has not been extended. *)
C22_Witness ==
    /\ tpc = "returned"
    /\ NoRecentInput
    /\ RecentFileCreate
    /\ evalNow - last_prompt > FileCooldown
    /\ hint = IdleReason
    /\ file_events = <<>>

(***************************************************************************)
(* Properties of sessions.                                                 *)
(***************************************************************************)
(* monitor_loop is past its test of the event: evaluate or the cycle runs. *)
Evaluating == {"eval", "ctx", "llm", "ask", "record", "transcribe", "log"}

(* A session is running: start_task has run and the stop_task that follows
   it has not. *)
SessionRunning == sessions >= 1 /\ ~start_btn

(* C23: the trigger is evaluated, and the user prompted, only while a session
   is running: not before the first start_task and not after a stop_task. *)
C23_EvaluateOnlyInSession ==
    mpc \in Evaluating => SessionRunning

(* C24: the session log a stop_task writes holds only events appended since
   the start_task of its own session: no more lines than that session
   appended, and every line the format of one of its events. *)
C24_SessionLogIsolated ==
    [][(mpc = "dump" /\ mpc' = "loop") =>
          LET lines == LogOf(session_log', start_time)
          IN  /\ Len(lines) <= Len(appended) - runFrom
              /\ \A i \in 1..Len(lines) :
                     \E j \in (runFrom + 1)..Len(appended) :
                         lines[i] = FormatLine(appended[j])]_vars

====
